---- MODULE Spec2Model ----
(***************************************************************************)
(* Model of the routing engine of model-load-optimizer: ModelRouter        *)
(* (router.ts), the OllamaClient health cache (ollama-client.ts), the      *)
(* nvidia-smi probes (gpu-detect.ts) and the gateway route method.         *)
(*                                                                         *)
(* Time is counted in units of 10 seconds of Date.now().  Every `await` of *)
(* the source is a position of a task, so invocations interleave at their  *)
(* await points as they do on the event loop.                              *)
(***************************************************************************)
EXTENDS Integers, FiniteSets, Sequences, TLC

(* ---------------------------------------------------------------------- *)
(* Bounds of the model                                                     *)
(* ---------------------------------------------------------------------- *)
MaxDecisions == 2    \* counted decisions per behaviour
MaxTime == 5         \* last value of the clock
MaxStarts == 2       \* start() calls per behaviour
MaxHooks == 3        \* agent_end hook invocations per behaviour
\* first value of the clock: Date.now() of a running process is far larger
\* than any staleness window, so the clock starts beyond the largest one
StartTime == 3

(* ---------------------------------------------------------------------- *)
(* Program constants                                                       *)
(* ---------------------------------------------------------------------- *)
\* seconds in one time unit
UnitSec == 10
\* execSync timeout of one probe: 10_000 ms = 1 time unit
ProbeTimeout == 1
ShortMessageLimit == 200
ShallowDepthLimit == 3

PrimaryModel == "deepseek-coder-v2:16b"
SidecarModel == "qwen2.5-coder:7b"
DefaultFallbackModel == "anthropic/claude-sonnet-4-5"
Models == {PrimaryModel, SidecarModel}

(* ---------------------------------------------------------------------- *)
(* Representation of undefined / null                                      *)
(* ---------------------------------------------------------------------- *)
Undefined == -1             \* absent number (hint, reading)
NoString == "<undefined>"   \* absent string
NoVram == <<>>              \* vramUsage === null; a reading is <<usedMB, totalMB>>

(* ---------------------------------------------------------------------- *)
(* Input domains                                                           *)
(* ---------------------------------------------------------------------- *)
\* healthCheckIntervalSec: 5 s and 10 s
Intervals == {5, 10}
\* gpuMemoryThreshold in percent (0 and the default 0.85)
Thresholds == {0, 85}
FallbackModels == {NoString, "", "remote/custom"}

\* configurations of the concurrent specification
Configs ==
  [healthCheckIntervalSec : Intervals,
   gpuMemoryThreshold : {85},
   fallbackModel : {NoString},
   preloadOnStart : {TRUE}]

\* configurations of the routing specification
RouteConfigs ==
  [healthCheckIntervalSec : {10},
   gpuMemoryThreshold : Thresholds,
   fallbackModel : FallbackModels,
   preloadOnStart : {FALSE}]

\* what getNvidiaGpuUtilization / getNvidiaVramUsage can return
UtilReadings == {100}
VramReadings == {NoVram}
RouteUtilReadings == {Undefined, 0, 100}
RouteVramReadings == {NoVram, <<5, 10>>, <<17, 20>>, <<9, 10>>, <<0, 0>>}

\* what /api/tags and /api/ps can list
TagsAnswers == {{}, {PrimaryModel, SidecarModel}}
PsAnswers == {{}}

\* the argument of selectModel: given = FALSE is a call without argument
NoContext ==
  [given |-> FALSE, messageLength |-> Undefined,
   conversationDepth |-> Undefined, forceModel |-> NoString]
NoHints ==
  [given |-> TRUE, messageLength |-> Undefined,
   conversationDepth |-> Undefined, forceModel |-> NoString]
Contexts ==
  {NoHints,
   [NoHints EXCEPT !.messageLength = 200, !.conversationDepth = 3],
   [NoHints EXCEPT !.forceModel = "x"]}

\* createRouteMethod: the gateway always passes an object; a parameter of
\* the wrong type (here: absent) becomes undefined
createRouteMethod(messageLength, conversationDepth, forceModel) ==
  [given |-> TRUE, messageLength |-> messageLength,
   conversationDepth |-> conversationDepth, forceModel |-> forceModel]

MessageLengths == {Undefined, 0, 199, 200, 500}
ConversationDepths == {Undefined, 0, 2, 3, 5}
ForceModels == {"", "x", PrimaryModel}
RouteContexts ==
  {NoContext} \cup
  {createRouteMethod(m, d, NoString) :
     m \in MessageLengths, d \in ConversationDepths} \cup
  {createRouteMethod(m, Undefined, f) :
     m \in {Undefined, 200}, f \in ForceModels}

(* ---------------------------------------------------------------------- *)
(* State                                                                   *)
(* ---------------------------------------------------------------------- *)
VARIABLES
  config,          \* PluginConfig, read-only after construction
  now,             \* Date.now()
  health,          \* OllamaClient._health
  state,           \* ModelRouter.state
  healthInterval,  \* ModelRouter.healthInterval: 0 = null, else a timer id
  timers,          \* interval timers that are scheduled and not cleared
  timersMade,      \* number of setInterval calls so far
  warmCalls,       \* number of warmModel requests issued
  tasks,           \* async invocations in flight
  returned,        \* record of the selectModel call that returned in this step
  agentEnd,        \* the last agent_end hook invocation and its promise
  keepAlive,       \* the warmModel calls the agent_end hook has started
  snapshot,        \* an object getState has returned, as its holder sees it
  lastCall         \* the last of start() and stop() that was called

vars ==
  <<config, now, health, state, healthInterval, timers, timersMade,
    warmCalls, tasks, returned, agentEnd, keepAlive, snapshot, lastCall>>

(* ---------------------------------------------------------------------- *)
(* OllamaClient (ollama-client.ts)                                         *)
(* ---------------------------------------------------------------------- *)
\* the catalogs are modelled by the names they contain: a model matches
\* when one entry has m.name === modelName || m.model === modelName
InitialHealth ==
  [reachable |-> FALSE, pulledModels |-> {}, runningModels |-> {}]

isModelPulled(h, modelName) == modelName \in h.pulledModels

isModelLoaded(h, modelName) == modelName \in h.runningModels

getModelStatus(h, modelName) ==
  [name |-> modelName,
   pulled |-> isModelPulled(h, modelName),
   loaded |-> isModelLoaded(h, modelName)]

\* checkHealth, try block after the third fetch
HealthOnSuccess(tagsModels, psModels) ==
  [reachable |-> TRUE, pulledModels |-> tagsModels, runningModels |-> psModels]

\* checkHealth, catch block
\* mutant of HealthOnFailure: the pulled catalog is dropped with the rest
HealthOnFailureCleared(h) ==
  [reachable |-> FALSE, pulledModels |-> {}, runningModels |-> {}]

HealthOnFailure(h) ==
  [reachable |-> FALSE, pulledModels |-> h.pulledModels, runningModels |-> {}]

(* ---------------------------------------------------------------------- *)
(* ModelRouter (router.ts): pure parts                                     *)
(* ---------------------------------------------------------------------- *)
\* a RouteDecision without its timestamp (Date.now() at creation, which is
\* the clock of the step that creates it)
NoDecision ==
  [model |-> NoString, reason |-> NoString, source |-> "none",
   gpuUtilization |-> Undefined, vramUsedMB |-> Undefined,
   vramTotalMB |-> Undefined, modelLoaded |-> FALSE]

InitialState ==
  [lastDecision |-> NoDecision,
   primaryStatus |-> [name |-> PrimaryModel, pulled |-> FALSE, loaded |-> FALSE],
   sidecarStatus |-> [name |-> SidecarModel, pulled |-> FALSE, loaded |-> FALSE],
   gpuUtilization |-> Undefined,
   vramUsage |-> NoVram,
   ollamaReachable |-> FALSE,
   lastHealthCheck |-> 0,
   decisionsCount |-> 0,
   primarySelections |-> 0,
   sidecarSelections |-> 0,
   fallbackSelections |-> 0]

\* `context?.forceModel` is truthy: a context with a non-empty string
IsForced(ctx) == ctx.given /\ ctx.forceModel \notin {NoString, ""}

\* mutant of IsStale: the window is one interval instead of two
IsStaleOneInterval(s, cfg, t) ==
  (t - s.lastHealthCheck) * UnitSec > cfg.healthCheckIntervalSec

\* Date.now() - lastHealthCheck > healthCheckIntervalSec * 1000 * 2
IsStale(s, cfg, t) ==
  (t - s.lastHealthCheck) * UnitSec > cfg.healthCheckIntervalSec * 2

\* mutant of isGpuOverloaded: a ratio equal to the threshold is not overloaded
isGpuOverloadedStrict(s, cfg) ==
  IF s.vramUsage = NoVram THEN FALSE
  ELSE LET usedMB == s.vramUsage[1]
           totalMB == s.vramUsage[2]
       IN IF totalMB = 0 THEN usedMB > 0
          ELSE usedMB * 100 > cfg.gpuMemoryThreshold * totalMB

\* mutant of isGpuOverloaded: without a VRAM reading the utilization decides
isGpuOverloadedByUtilization(s, cfg) ==
  IF s.vramUsage = NoVram THEN s.gpuUtilization >= cfg.gpuMemoryThreshold
  ELSE LET usedMB == s.vramUsage[1]
           totalMB == s.vramUsage[2]
       IN IF totalMB = 0 THEN usedMB > 0
          ELSE usedMB * 100 >= cfg.gpuMemoryThreshold * totalMB

\* usedMB / totalMB >= gpuMemoryThreshold, thresholds in percent;
\* x / 0 is Infinity for x > 0 and NaN (never >=) for x = 0
isGpuOverloaded(s, cfg) ==
  IF s.vramUsage = NoVram THEN FALSE
  ELSE LET usedMB == s.vramUsage[1]
           totalMB == s.vramUsage[2]
       IN IF totalMB = 0 THEN usedMB > 0
          ELSE usedMB * 100 >= cfg.gpuMemoryThreshold * totalMB

\* `x ?? 0` on a hint field
OrZero(x) == IF x = Undefined THEN 0 ELSE x

\* mutant of isSimpleRequest: one of the two tests is enough
isSimpleRequestEither(ctx) ==
  IF ~ctx.given THEN FALSE
  ELSE LET shortMessage == OrZero(ctx.messageLength) < ShortMessageLimit
           shallowConversation == OrZero(ctx.conversationDepth) < ShallowDepthLimit
       IN shortMessage \/ shallowConversation

isSimpleRequest(ctx) ==
  IF ~ctx.given THEN FALSE
  ELSE LET shortMessage == OrZero(ctx.messageLength) < ShortMessageLimit
           shallowConversation == OrZero(ctx.conversationDepth) < ShallowDepthLimit
       IN shortMessage /\ shallowConversation

VramUsed(s) == IF s.vramUsage = NoVram THEN Undefined ELSE s.vramUsage[1]
VramTotal(s) == IF s.vramUsage = NoVram THEN Undefined ELSE s.vramUsage[2]

decidePrimary(s, reason) ==
  [s EXCEPT
     !.decisionsCount = @ + 1,
     !.primarySelections = @ + 1,
     !.lastDecision =
        [model |-> "ollama/" \o PrimaryModel,
         reason |-> reason,
         source |-> "primary",
         gpuUtilization |-> s.gpuUtilization,
         vramUsedMB |-> VramUsed(s),
         vramTotalMB |-> VramTotal(s),
         modelLoaded |-> s.primaryStatus.loaded]]

decideSidecar(s, reason) ==
  [s EXCEPT
     !.decisionsCount = @ + 1,
     !.sidecarSelections = @ + 1,
     !.lastDecision =
        [model |-> "ollama/" \o SidecarModel,
         reason |-> reason,
         source |-> "sidecar",
         gpuUtilization |-> s.gpuUtilization,
         vramUsedMB |-> VramUsed(s),
         vramTotalMB |-> VramTotal(s),
         modelLoaded |-> s.sidecarStatus.loaded]]

\* mutant of decideFallback: an empty fallbackModel also gives the default
decideFallbackOrDefault(s, cfg, reason) ==
  [s EXCEPT
     !.decisionsCount = @ + 1,
     !.fallbackSelections = @ + 1,
     !.lastDecision =
        [model |-> IF cfg.fallbackModel \in {NoString, ""}
                   THEN DefaultFallbackModel ELSE cfg.fallbackModel,
         reason |-> reason,
         source |-> "fallback",
         gpuUtilization |-> s.gpuUtilization,
         vramUsedMB |-> Undefined,
         vramTotalMB |-> Undefined,
         modelLoaded |-> FALSE]]

\* mutant of decideFallback: the decision is not counted in decisionsCount
decideFallbackUncounted(s, cfg, reason) ==
  [s EXCEPT
     !.fallbackSelections = @ + 1,
     !.lastDecision =
        [model |-> IF cfg.fallbackModel = NoString
                   THEN DefaultFallbackModel ELSE cfg.fallbackModel,
         reason |-> reason,
         source |-> "fallback",
         gpuUtilization |-> s.gpuUtilization,
         vramUsedMB |-> Undefined,
         vramTotalMB |-> Undefined,
         modelLoaded |-> FALSE]]

decideFallback(s, cfg, reason) ==
  [s EXCEPT
     !.decisionsCount = @ + 1,
     !.fallbackSelections = @ + 1,
     !.lastDecision =
        [model |-> IF cfg.fallbackModel = NoString
                   THEN DefaultFallbackModel ELSE cfg.fallbackModel,
         reason |-> reason,
         source |-> "fallback",
         gpuUtilization |-> s.gpuUtilization,
         vramUsedMB |-> Undefined,
         vramTotalMB |-> Undefined,
         modelLoaded |-> FALSE]]

\* mutant of decideForced: a forced model that is not loaded is replaced by
\* the primary model
decideForcedIfLoaded(s, h, ctx) ==
  [s EXCEPT
     !.lastDecision =
        [model |-> IF isModelLoaded(h, ctx.forceModel) THEN ctx.forceModel
                   ELSE "ollama/" \o PrimaryModel,
         reason |-> "Forced model selection",
         source |-> "primary",
         gpuUtilization |-> Undefined,
         vramUsedMB |-> Undefined,
         vramTotalMB |-> Undefined,
         modelLoaded |-> isModelLoaded(h, ctx.forceModel)]]

\* selectModel, the force override block
decideForced(s, h, ctx) ==
  [s EXCEPT
     !.lastDecision =
        [model |-> ctx.forceModel,
         reason |-> "Forced model selection",
         source |-> "primary",
         gpuUtilization |-> Undefined,
         vramUsedMB |-> Undefined,
         vramTotalMB |-> Undefined,
         modelLoaded |-> isModelLoaded(h, ctx.forceModel)]]

ReasonUnreachable == "Ollama is unreachable"
ReasonPrimaryLoaded == "Primary model loaded and GPU has capacity"
ReasonPrimaryLoading == "Primary model available, loading for complex request"
ReasonOverloaded(cfg) ==
  "GPU VRAM above " \o ToString(cfg.gpuMemoryThreshold) \o "% - routing to CPU sidecar"
ReasonSimple == "Simple request routed to fast CPU sidecar"
ReasonSidecarWarm == "Sidecar already loaded - fast response path"
ReasonPartialOffload == "Primary model available with partial GPU offload"
ReasonOnlySidecar == "Only sidecar model available"
ReasonNoLocal == "No local models available"

\* mutant of decideLocal: the warm sidecar is preferred before the
\* overload / simple-request rule
decideLocalWarmFirst(s, cfg, ctx) ==
  LET primaryPulled == s.primaryStatus.pulled
      sidecarPulled == s.sidecarStatus.pulled
      primaryLoaded == s.primaryStatus.loaded
      sidecarLoaded == s.sidecarStatus.loaded
      gpuOverloaded == isGpuOverloaded(s, cfg)
      simple == isSimpleRequest(ctx)
  IN IF primaryPulled /\ primaryLoaded /\ ~gpuOverloaded
       THEN decidePrimary(s, ReasonPrimaryLoaded)
     ELSE IF primaryPulled /\ ~gpuOverloaded /\ ~simple
       THEN decidePrimary(s, ReasonPrimaryLoading)
     ELSE IF sidecarPulled /\ sidecarLoaded
       THEN decideSidecar(s, ReasonSidecarWarm)
     ELSE IF sidecarPulled /\ (gpuOverloaded \/ simple)
       THEN decideSidecar(s, IF gpuOverloaded THEN ReasonOverloaded(cfg)
                              ELSE ReasonSimple)
     ELSE IF primaryPulled
       THEN decidePrimary(s, ReasonPartialOffload)
     ELSE IF sidecarPulled
       THEN decideSidecar(s, ReasonOnlySidecar)
     ELSE decideFallback(s, cfg, ReasonNoLocal)

\* mutant of decideLocal: the rule for a loaded primary is missing
decideLocalWithoutLoadedRule(s, cfg, ctx) ==
  LET primaryPulled == s.primaryStatus.pulled
      sidecarPulled == s.sidecarStatus.pulled
      sidecarLoaded == s.sidecarStatus.loaded
      gpuOverloaded == isGpuOverloaded(s, cfg)
      simple == isSimpleRequest(ctx)
  IN IF primaryPulled /\ ~gpuOverloaded /\ ~simple
       THEN decidePrimary(s, ReasonPrimaryLoading)
     ELSE IF sidecarPulled /\ (gpuOverloaded \/ simple)
       THEN decideSidecar(s, IF gpuOverloaded THEN ReasonOverloaded(cfg)
                              ELSE ReasonSimple)
     ELSE IF sidecarPulled /\ sidecarLoaded
       THEN decideSidecar(s, ReasonSidecarWarm)
     ELSE IF primaryPulled
       THEN decidePrimary(s, ReasonPartialOffload)
     ELSE IF sidecarPulled
       THEN decideSidecar(s, ReasonOnlySidecar)
     ELSE decideFallback(s, cfg, ReasonNoLocal)

\* mutant of decideLocal: a loaded primary model is used without looking at
\* the pulled catalog
decideLocalLoadedIsEnough(s, cfg, ctx) ==
  LET primaryPulled == s.primaryStatus.pulled
      sidecarPulled == s.sidecarStatus.pulled
      primaryLoaded == s.primaryStatus.loaded
      sidecarLoaded == s.sidecarStatus.loaded
      gpuOverloaded == isGpuOverloaded(s, cfg)
      simple == isSimpleRequest(ctx)
  IN IF primaryLoaded /\ ~gpuOverloaded
       THEN decidePrimary(s, ReasonPrimaryLoaded)
     ELSE IF primaryPulled /\ ~gpuOverloaded /\ ~simple
       THEN decidePrimary(s, ReasonPrimaryLoading)
     ELSE IF sidecarPulled /\ (gpuOverloaded \/ simple)
       THEN decideSidecar(s, IF gpuOverloaded THEN ReasonOverloaded(cfg)
                              ELSE ReasonSimple)
     ELSE IF sidecarPulled /\ sidecarLoaded
       THEN decideSidecar(s, ReasonSidecarWarm)
     ELSE IF primaryPulled
       THEN decidePrimary(s, ReasonPartialOffload)
     ELSE IF sidecarPulled
       THEN decideSidecar(s, ReasonOnlySidecar)
     ELSE decideFallback(s, cfg, ReasonNoLocal)

\* selectModel from `const primaryPulled` to its end: the decision logic
decideLocal(s, cfg, ctx) ==
  LET primaryPulled == s.primaryStatus.pulled
      sidecarPulled == s.sidecarStatus.pulled
      primaryLoaded == s.primaryStatus.loaded
      sidecarLoaded == s.sidecarStatus.loaded
      gpuOverloaded == isGpuOverloaded(s, cfg)
      simple == isSimpleRequest(ctx)
  IN IF primaryPulled /\ primaryLoaded /\ ~gpuOverloaded
       THEN decidePrimary(s, ReasonPrimaryLoaded)
     ELSE IF primaryPulled /\ ~gpuOverloaded /\ ~simple
       THEN decidePrimary(s, ReasonPrimaryLoading)
     ELSE IF sidecarPulled /\ (gpuOverloaded \/ simple)
       THEN decideSidecar(s, IF gpuOverloaded THEN ReasonOverloaded(cfg)
                              ELSE ReasonSimple)
     ELSE IF sidecarPulled /\ sidecarLoaded
       THEN decideSidecar(s, ReasonSidecarWarm)
     ELSE IF primaryPulled
       THEN decidePrimary(s, ReasonPartialOffload)
     ELSE IF sidecarPulled
       THEN decideSidecar(s, ReasonOnlySidecar)
     ELSE decideFallback(s, cfg, ReasonNoLocal)

\* mutant of decide: reachability is consulted only when no model is pulled
decideLocalFirst(s, cfg, ctx) ==
  IF s.ollamaReachable \/ s.primaryStatus.pulled \/ s.sidecarStatus.pulled
    THEN decideLocal(s, cfg, ctx)
    ELSE decideFallback(s, cfg, ReasonUnreachable)

\* selectModel from `If Ollama is down` to its end: the state after the decision
decide(s, cfg, ctx) ==
  IF ~s.ollamaReachable THEN decideFallback(s, cfg, ReasonUnreachable)
  ELSE decideLocal(s, cfg, ctx)

\* mutant of refreshed: the last decision is forgotten
refreshedForgetting(s, h, reachable, t, util, vram) ==
  [s EXCEPT
     !.ollamaReachable = reachable,
     !.lastHealthCheck = t,
     !.primaryStatus = getModelStatus(h, PrimaryModel),
     !.sidecarStatus = getModelStatus(h, SidecarModel),
     !.gpuUtilization = util,
     !.vramUsage = vram,
     !.lastDecision = NoDecision]

\* mutant of refreshed: lastHealthCheck is not updated
refreshedWithoutStamp(s, h, reachable, t, util, vram) ==
  [s EXCEPT
     !.ollamaReachable = reachable,
     !.primaryStatus = getModelStatus(h, PrimaryModel),
     !.sidecarStatus = getModelStatus(h, SidecarModel),
     !.gpuUtilization = util,
     !.vramUsage = vram]

\* mutant of refreshed: a failed health check leaves lastHealthCheck as it was
refreshedStampOnSuccess(s, h, reachable, t, util, vram) ==
  [s EXCEPT
     !.ollamaReachable = reachable,
     !.lastHealthCheck = IF reachable THEN t ELSE @,
     !.primaryStatus = getModelStatus(h, PrimaryModel),
     !.sidecarStatus = getModelStatus(h, SidecarModel),
     !.gpuUtilization = util,
     !.vramUsage = vram]

\* refreshHealth after `await this.client.checkHealth()`: reachable is the
\* flag of the snapshot the call returned, the statuses are read from the
\* client's cache as it is now
refreshed(s, h, reachable, t, util, vram) ==
  [s EXCEPT
     !.ollamaReachable = reachable,
     !.lastHealthCheck = t,
     !.primaryStatus = getModelStatus(h, PrimaryModel),
     !.sidecarStatus = getModelStatus(h, SidecarModel),
     !.gpuUtilization = util,
     !.vramUsage = vram]

(* ---------------------------------------------------------------------- *)
(* getState and the objects it shares with the router state                *)
(* ---------------------------------------------------------------------- *)
\* the fields of RouterState that hold objects; the others hold primitives
ObjectFields == {"primaryStatus", "sidecarStatus", "vramUsage", "lastDecision"}

\* taken: getState has been called; value: the returned object as it reads
\* now; orig: the router state at the call; shared: the fields whose
\* object is the very object the router state holds
NoSnapshot ==
  [taken |-> FALSE, value |-> <<>>, orig |-> <<>>, shared |-> {}]

\* mutant of AssignedByRefresh: the objects are updated in place
AssignedByRefreshInPlace == {}

\* refreshHealth assigns a new object to each of these fields
AssignedByRefresh == {"primaryStatus", "sidecarStatus", "vramUsage"}

\* every decide* and the force override assign a new RouteDecision
AssignedByDecision == {"lastDecision"}

\* the snapshot after the router state became s by assigning new objects to
\* the fields in `assigned`: those fields are no longer shared; a field
\* that is still shared reads as the router state's field does
Aliased(snap, s, assigned) ==
  [snap EXCEPT
     !.shared = @ \ assigned,
     !.value = [f \in DOMAIN snap.value |->
                  IF f \in snap.shared \ assigned THEN s[f] ELSE snap.value[f]]]

(* ---------------------------------------------------------------------- *)
(* Tasks: async invocations and their positions                            *)
(* ---------------------------------------------------------------------- *)
\* the invocations that can be in flight at once: one selectModel in its
\* staleness refresh or one start(), and one other refreshHealth
SelectSlots == {1}
StartSlots == {1}
RefreshSlots == {2}
TaskIds == SelectSlots \cup StartSlots \cup RefreshSlots

\* no snapshot returned yet
NoResult == <<>>

\* kind: "refresh" (gateway/command/timer refreshHealth), "select"
\* (selectModel in its staleness refresh), "start" (start())
\* pc: "version", "tags", "ps" = awaiting that fetch of checkHealth;
\*     "health" = checkHealth returned, refreshHealth not yet resumed;
\*     "decide" = refreshHealth returned, selectModel not yet resumed;
\*     "interval" = refreshHealth returned, start not yet resumed;
\*     "warm" = start awaiting warmModel
\* refreshes, calledAt, lastCheck record a selectModel call's history: the
\* refreshHealth calls it has completed, Date.now() and lastHealthCheck as
\* its staleness test read them; cached records the pulledModels the client
\* held when the task's checkHealth was called
\* result is the snapshot the task's checkHealth returned (`health` in
\* refreshHealth); ahead counts the refreshHealth continuations that were
\* queued before this one and have not run yet: the microtask queue is
\* first in, first out
FreeTask ==
  [kind |-> "free", pc |-> "none", ctx |-> NoContext, tags |-> {},
   reachable |-> FALSE, refreshes |-> 0, calledAt |-> 0, lastCheck |-> 0,
   cached |-> {}, result |-> NoResult, ahead |-> 0]

\* history of the selectModel call that returned in the last step: its
\* argument, the refreshHealth calls it completed, the clock and
\* lastHealthCheck as its staleness test read them, and the state just
\* before its decision
NoReturn ==
  [done |-> FALSE, ctx |-> NoContext, refreshes |-> 0, calledAt |-> 0,
   lastCheck |-> 0, pre |-> InitialState]

\* a model name is the sequence of its parts between "/": "ollama/x" is
\* <<"ollama", "x">>, "" is <<"">>; an absent name is <<>>
NoModel == <<>>

\* the promise of a hook invocation: status "none" before the first one
NoHook == [status |-> "none", model |-> NoModel, warmed |-> FALSE, runs |-> 0]

IsFree(t) == tasks[t].kind = "free"

\* a continuation is queued on the microtask queue: it runs before the
\* event loop lets wall-clock time pass
ContinuationQueued ==
  \E t \in TaskIds : tasks[t].pc \in {"health", "decide", "interval"}

Spawn(t, kind, ctx) ==
  tasks' = [tasks EXCEPT ![t] =
              [kind |-> kind, pc |-> "version", ctx |-> ctx, tags |-> {},
               reachable |-> FALSE, refreshes |-> 0,
               calledAt |-> IF kind = "select" THEN now ELSE 0,
               lastCheck |-> IF kind = "select" THEN state.lastHealthCheck ELSE 0,
               cached |-> health.pulledModels,
               result |-> NoResult, ahead |-> 0]]

\* the refreshHealth continuations on the microtask queue
QueuedResumes == Cardinality({u \in TaskIds : tasks[u].pc = "health"})

(* ---------------------------------------------------------------------- *)
(* Initial state: after `new OllamaClient(host)` and `new ModelRouter`     *)
(* ---------------------------------------------------------------------- *)
Init ==
  /\ config \in Configs
  /\ now = StartTime
  /\ health = InitialHealth
  /\ state = InitialState
  /\ healthInterval = 0
  /\ timers = {}
  /\ timersMade = 0
  /\ warmCalls = 0
  /\ tasks = [t \in TaskIds |-> FreeTask]
  /\ returned = NoReturn
  /\ agentEnd = NoHook
  /\ keepAlive = <<>>
  /\ snapshot = NoSnapshot
  /\ lastCall = "none"

(* ---------------------------------------------------------------------- *)
(* The clock                                                               *)
(* ---------------------------------------------------------------------- *)
Tick ==
  /\ now < MaxTime
  /\ ~ContinuationQueued
  /\ now' = now + 1
  /\ returned' = NoReturn
  /\ UNCHANGED <<lastCall, snapshot, agentEnd, keepAlive,
                 config, health, state, healthInterval, timers, timersMade,
                 warmCalls, tasks>>

(* ---------------------------------------------------------------------- *)
(* selectModel                                                             *)
(* ---------------------------------------------------------------------- *)
\* the force override: no await, the call returns in the same step
SelectForced(ctx) ==
  /\ IsForced(ctx)
  /\ state' = decideForced(state, health, ctx)
  /\ snapshot' = Aliased(snapshot, state', AssignedByDecision)
  /\ returned' = [done |-> TRUE, ctx |-> ctx, refreshes |-> 0, calledAt |-> now,
                  lastCheck |-> state.lastHealthCheck, pre |-> state]
  /\ UNCHANGED <<lastCall, agentEnd, keepAlive,
                 config, now, health, healthInterval, timers, timersMade,
                 warmCalls, tasks>>

\* health is fresh enough: no await, the call returns in the same step
SelectFresh(ctx) ==
  /\ ~IsForced(ctx)
  /\ ~IsStale(state, config, now)
  /\ state.decisionsCount < MaxDecisions
  /\ state' = decide(state, config, ctx)
  /\ snapshot' = Aliased(snapshot, state', AssignedByDecision)
  /\ returned' = [done |-> TRUE, ctx |-> ctx, refreshes |-> 0, calledAt |-> now,
                  lastCheck |-> state.lastHealthCheck, pre |-> state]
  /\ UNCHANGED <<lastCall, agentEnd, keepAlive,
                 config, now, health, healthInterval, timers, timersMade,
                 warmCalls, tasks>>

\* health is stale: `await this.refreshHealth()` starts checkHealth.
\* The call reads its hints only after the await: the task does not carry
\* them, SelectDecide draws them where they are read
SelectStale(t, ctx) ==
  /\ ~IsForced(ctx)
  /\ IsStale(state, config, now)
  /\ t \in SelectSlots
  /\ IsFree(t)
  /\ Spawn(t, "select", NoContext)
  /\ returned' = NoReturn
  /\ UNCHANGED <<lastCall, snapshot, agentEnd, keepAlive,
                 config, now, health, state, healthInterval, timers,
                 timersMade, warmCalls>>

\* selectModel resumes after its refreshHealth and decides
SelectDecide(t, ctx) ==
  /\ tasks[t].kind = "select"
  /\ tasks[t].pc = "decide"
  /\ ~IsForced(ctx)
  /\ state.decisionsCount < MaxDecisions
  /\ state' = decide(state, config, ctx)
  /\ snapshot' = Aliased(snapshot, state', AssignedByDecision)
  /\ returned' = [done |-> TRUE, ctx |-> ctx,
                  refreshes |-> tasks[t].refreshes,
                  calledAt |-> tasks[t].calledAt,
                  lastCheck |-> tasks[t].lastCheck, pre |-> state]
  /\ tasks' = [tasks EXCEPT ![t] = FreeTask]
  /\ UNCHANGED <<lastCall, agentEnd, keepAlive,
                 config, now, health, healthInterval, timers, timersMade,
                 warmCalls>>

(* ---------------------------------------------------------------------- *)
(* refreshHealth / checkHealth                                             *)
(* ---------------------------------------------------------------------- *)
\* refreshHealth called from the gateway, the command or the HTTP route
RefreshHealth(t) ==
  /\ IsFree(t)
  /\ Spawn(t, "refresh", NoContext)
  /\ returned' = NoReturn
  /\ UNCHANGED <<lastCall, snapshot, agentEnd, keepAlive,
                 config, now, health, state, healthInterval, timers,
                 timersMade, warmCalls>>

\* a scheduled interval timer calls refreshHealth
TimerFire(t) ==
  /\ timers # {}
  /\ t \in RefreshSlots
  /\ IsFree(t)
  /\ Spawn(t, "refresh", NoContext)
  /\ returned' = NoReturn
  /\ UNCHANGED <<lastCall, snapshot, agentEnd, keepAlive,
                 config, now, health, state, healthInterval, timers,
                 timersMade, warmCalls>>

\* GET /api/version answers 2xx
VersionOk(t) ==
  /\ tasks[t].pc = "version"
  /\ tasks' = [tasks EXCEPT ![t].pc = "tags"]
  /\ returned' = NoReturn
  /\ UNCHANGED <<lastCall, snapshot, agentEnd, keepAlive,
                 config, now, health, state, healthInterval, timers,
                 timersMade, warmCalls>>

\* mutant of TagsOk: the catalog is written to the cache as soon as it arrives
TagsOkPublished(t, tagsModels) ==
  /\ tasks[t].pc = "tags"
  /\ tasks' = [tasks EXCEPT ![t].pc = "ps", ![t].tags = tagsModels]
  /\ health' = [health EXCEPT !.pulledModels = tagsModels]
  /\ returned' = NoReturn
  /\ UNCHANGED <<lastCall, snapshot, agentEnd, keepAlive,
                 config, now, state, healthInterval, timers, timersMade,
                 warmCalls>>

\* GET /api/tags answers 2xx with a catalog (models ?? [])
TagsOk(t, tagsModels) ==
  /\ tasks[t].pc = "tags"
  /\ tasks' = [tasks EXCEPT ![t].pc = "ps", ![t].tags = tagsModels]
  /\ returned' = NoReturn
  /\ UNCHANGED <<lastCall, snapshot, agentEnd, keepAlive,
                 config, now, health, state, healthInterval, timers,
                 timersMade, warmCalls>>

\* GET /api/ps answers 2xx: the try block installs the new snapshot
PsOk(t, psModels) ==
  /\ tasks[t].pc = "ps"
  /\ health' = HealthOnSuccess(tasks[t].tags, psModels)
  /\ tasks' = [tasks EXCEPT ![t].pc = "health", ![t].tags = {},
                            ![t].reachable = TRUE,
                            ![t].result = health',
                            ![t].ahead = QueuedResumes]
  /\ returned' = NoReturn
  /\ UNCHANGED <<lastCall, snapshot, agentEnd, keepAlive,
                 config, now, state, healthInterval, timers, timersMade,
                 warmCalls>>

\* mutant of FetchFail: checkHealth has no catch, the error ends the caller
FetchFailThrows(t) ==
  /\ tasks[t].pc \in {"version", "tags", "ps"}
  /\ tasks' = [tasks EXCEPT ![t] = FreeTask]
  /\ returned' = NoReturn
  /\ UNCHANGED <<lastCall, snapshot, agentEnd, keepAlive,
                 config, now, health, state, healthInterval, timers,
                 timersMade, warmCalls>>

\* any of the three fetches throws (network error, non-2xx, abort after 10 s)
FetchFail(t) ==
  /\ tasks[t].pc \in {"version", "tags", "ps"}
  /\ health' = HealthOnFailure(health)
  /\ tasks' = [tasks EXCEPT ![t].pc = "health", ![t].tags = {},
                            ![t].reachable = FALSE,
                            ![t].result = health',
                            ![t].ahead = QueuedResumes]
  /\ returned' = NoReturn
  /\ UNCHANGED <<lastCall, snapshot, agentEnd, keepAlive,
                 config, now, state, healthInterval, timers, timersMade,
                 warmCalls>>

\* the task record after its refreshHealth returned
AfterRefresh(t) ==
  IF tasks[t].kind = "refresh" THEN FreeTask
  ELSE [tasks[t] EXCEPT
          !.pc = IF tasks[t].kind = "select" THEN "decide" ELSE "interval",
          !.reachable = FALSE,
          !.cached = {},
          !.result = NoResult,
          !.refreshes = @ + 1]

\* mutant of RefreshResume: the continuations run in any order
RefreshResumeUnordered(t, util, vram, elapsed) ==
  /\ tasks[t].pc = "health"
  /\ now + elapsed <= MaxTime
  /\ state' = refreshed(state, health, tasks[t].reachable, now, util, vram)
  /\ snapshot' = Aliased(snapshot, state', AssignedByRefresh)
  /\ now' = now + elapsed
  /\ tasks' = [tasks EXCEPT ![t] = AfterRefresh(t)]
  /\ returned' = NoReturn
  /\ UNCHANGED <<lastCall, agentEnd, keepAlive,
                 config, health, healthInterval, timers, timersMade, warmCalls>>

\* refreshHealth resumes after checkHealth: writes the state, then runs the
\* two nvidia-smi probes synchronously; they take `elapsed` time units.
\* The continuation was queued when checkHealth returned, so it runs after
\* the continuations queued before it
RefreshResume(t, util, vram, elapsed) ==
  /\ tasks[t].pc = "health"
  /\ tasks[t].ahead = 0
  /\ now + elapsed <= MaxTime
  /\ state' = refreshed(state, health, tasks[t].reachable, now, util, vram)
  /\ snapshot' = Aliased(snapshot, state', AssignedByRefresh)
  /\ now' = now + elapsed
  /\ tasks' = [u \in TaskIds |->
       IF u = t THEN AfterRefresh(t)
       ELSE IF tasks[u].pc = "health" THEN [tasks[u] EXCEPT !.ahead = @ - 1]
       ELSE tasks[u]]
  /\ returned' = NoReturn
  /\ UNCHANGED <<lastCall, agentEnd, keepAlive,
                 config, health, healthInterval, timers, timersMade, warmCalls>>

(* ---------------------------------------------------------------------- *)
(* start / stop                                                            *)
(* ---------------------------------------------------------------------- *)
StartsInFlight ==
  Cardinality({t \in TaskIds : tasks[t].kind = "start" /\ tasks[t].pc # "warm"})

\* start(): `await this.refreshHealth()` starts checkHealth
Start(t) ==
  /\ timersMade + StartsInFlight < MaxStarts
  /\ t \in StartSlots
  /\ IsFree(t)
  /\ Spawn(t, "start", NoContext)
  /\ returned' = NoReturn
  /\ lastCall' = "start"
  /\ UNCHANGED <<snapshot, agentEnd, keepAlive,
                 config, now, health, state, healthInterval, timers,
                 timersMade, warmCalls>>

\* mutant of StartResume: the preload does not look at the pulled status
StartResumeAlwaysWarm(t) ==
  /\ tasks[t].kind = "start"
  /\ tasks[t].pc = "interval"
  /\ timersMade' = timersMade + 1
  /\ healthInterval' = timersMade + 1
  /\ timers' = timers \cup {timersMade + 1}
  /\ IF config.preloadOnStart
       THEN /\ warmCalls' = warmCalls + 1
            /\ tasks' = [tasks EXCEPT ![t].pc = "warm"]
       ELSE /\ warmCalls' = warmCalls
            /\ tasks' = [tasks EXCEPT ![t] = FreeTask]
  /\ returned' = NoReturn
  /\ UNCHANGED <<lastCall, snapshot, agentEnd, keepAlive,
                 config, now, health, state>>

\* start() resumes: setInterval, then the preload
StartResume(t) ==
  /\ tasks[t].kind = "start"
  /\ tasks[t].pc = "interval"
  /\ timersMade' = timersMade + 1
  /\ healthInterval' = timersMade + 1
  /\ timers' = timers \cup {timersMade + 1}
  /\ IF config.preloadOnStart /\ state.primaryStatus.pulled
       THEN /\ warmCalls' = warmCalls + 1
            /\ tasks' = [tasks EXCEPT ![t].pc = "warm"]
       ELSE /\ warmCalls' = warmCalls
            /\ tasks' = [tasks EXCEPT ![t] = FreeTask]
  /\ returned' = NoReturn
  /\ UNCHANGED <<lastCall, snapshot, agentEnd, keepAlive,
                 config, now, health, state>>

\* warmModel resolves (true or false: it never throws) and start() returns
WarmDone(t) ==
  /\ tasks[t].kind = "start"
  /\ tasks[t].pc = "warm"
  /\ tasks' = [tasks EXCEPT ![t] = FreeTask]
  /\ returned' = NoReturn
  /\ UNCHANGED <<lastCall, snapshot, agentEnd, keepAlive,
                 config, now, health, state, healthInterval, timers,
                 timersMade, warmCalls>>

\* mutant of Stop: the field is reset but the interval is not cleared
StopWithoutClear ==
  /\ healthInterval' = 0
  /\ returned' = NoReturn
  /\ lastCall' = "stop"
  /\ UNCHANGED <<snapshot, agentEnd, keepAlive,
                 config, now, health, state, timers, timersMade, warmCalls,
                 tasks>>

Stop ==
  /\ IF healthInterval # 0
       THEN /\ timers' = timers \ {healthInterval}
            /\ healthInterval' = 0
       ELSE UNCHANGED <<timers, healthInterval>>
  /\ returned' = NoReturn
  /\ lastCall' = "stop"
  /\ UNCHANGED <<snapshot, agentEnd, keepAlive,
                 config, now, health, state, timersMade, warmCalls, tasks>>

(* ---------------------------------------------------------------------- *)
(* getState                                                                *)
(* ---------------------------------------------------------------------- *)
\* `{ ...this.state }`: a new object with the own properties of the state;
\* primitives are copied, object-valued fields refer to the same objects
GetState ==
  /\ ~snapshot.taken
  /\ snapshot' = [taken |-> TRUE,
                  value |-> [f \in DOMAIN state |-> state[f]],
                  orig |-> state,
                  shared |-> ObjectFields]
  /\ returned' = NoReturn
  /\ UNCHANGED <<lastCall, agentEnd, keepAlive, config, now, health, state,
                 healthInterval, timers, timersMade, warmCalls, tasks>>

(* ---------------------------------------------------------------------- *)
(* agent_end hook (hooks/agent-end.ts)                                     *)
(* ---------------------------------------------------------------------- *)
EventModels ==
  {NoModel, <<"">>,
   <<PrimaryModel>>, <<SidecarModel>>,
   <<"ollama", PrimaryModel>>, <<"ollama", SidecarModel>>,
   <<"ollama", "ollama", PrimaryModel>>,
   <<PrimaryModel, "ollama">>,
   <<"ollama">>, <<"ollama", "">>,
   <<"anthropic", "claude-sonnet-4-5">>,
   <<"ollama", "llama3:8b">>}

\* !modelUsed: undefined and the empty string
Falsy(modelUsed) == modelUsed \in {NoModel, <<"">>}

\* modelUsed.replace(/^ollama\//, ""): one leading "ollama/" is removed
stripOllama(modelUsed) ==
  IF Len(modelUsed) >= 2 /\ modelUsed[1] = "ollama" THEN Tail(modelUsed)
  ELSE modelUsed

\* mutant of AgentEnd: the hook awaits the warm call it starts
AgentEndAwaits(modelUsed) ==
  /\ agentEnd.runs < MaxHooks
  /\ LET ollamaModel == stripOllama(modelUsed)
         warm == /\ ~Falsy(modelUsed)
                 /\ ollamaModel \in {<<PrimaryModel>>, <<SidecarModel>>}
     IN /\ agentEnd' = [status |-> IF warm THEN "pending" ELSE "fulfilled",
                        model |-> modelUsed, warmed |-> warm,
                        runs |-> agentEnd.runs + 1]
        /\ IF warm
             THEN /\ keepAlive' = Append(keepAlive, [model |-> ollamaModel,
                                                     outcome |-> "pending"])
                  /\ warmCalls' = warmCalls + 1
             ELSE UNCHANGED <<keepAlive, warmCalls>>
  /\ returned' = NoReturn
  /\ UNCHANGED <<lastCall, snapshot, config, now, health, state, healthInterval,
                 timers, timersMade, tasks>>

\* the hook runs from its first to its last statement without an await:
\* it starts warmModel for a local model and returns
AgentEnd(modelUsed) ==
  /\ agentEnd.runs < MaxHooks
  /\ LET ollamaModel == stripOllama(modelUsed)
         warm == /\ ~Falsy(modelUsed)
                 /\ ollamaModel \in {<<PrimaryModel>>, <<SidecarModel>>}
     IN /\ agentEnd' = [status |-> "fulfilled", model |-> modelUsed,
                        warmed |-> warm, runs |-> agentEnd.runs + 1]
        /\ IF warm
             THEN /\ keepAlive' = Append(keepAlive, [model |-> ollamaModel,
                                                     outcome |-> "pending"])
                  /\ warmCalls' = warmCalls + 1
             ELSE UNCHANGED <<keepAlive, warmCalls>>
  /\ returned' = NoReturn
  /\ UNCHANGED <<lastCall, snapshot, config, now, health, state, healthInterval,
                 timers, timersMade, tasks>>

\* POST /api/generate answers 2xx: warmModel resolves true, .then logs it
KeepAliveOk(i) ==
  /\ keepAlive[i].outcome = "pending"
  /\ keepAlive' = [keepAlive EXCEPT ![i].outcome = "ok"]
  /\ returned' = NoReturn
  /\ UNCHANGED <<lastCall, snapshot, agentEnd, config, now, health, state, healthInterval, timers,
                 timersMade, warmCalls, tasks>>

\* the request fails or is aborted after 10 s: warmModel catches and
\* resolves false, .then does nothing
KeepAliveFail(i) ==
  /\ keepAlive[i].outcome = "pending"
  /\ keepAlive' = [keepAlive EXCEPT ![i].outcome = "failed"]
  /\ returned' = NoReturn
  /\ UNCHANGED <<lastCall, snapshot, agentEnd, config, now, health, state, healthInterval, timers,
                 timersMade, warmCalls, tasks>>

(* ---------------------------------------------------------------------- *)
(* Specification of the router: selectModel, refreshHealth and the clock   *)
(* ---------------------------------------------------------------------- *)
\* the two probes run one after the other, each within its timeout
ProbeTimes == 0..(2 * ProbeTimeout)

CheckHealthStep ==
  \/ \E t \in TaskIds : VersionOk(t)
  \/ \E t \in TaskIds, m \in TagsAnswers : TagsOk(t, m)
  \/ \E t \in TaskIds, m \in PsAnswers : PsOk(t, m)
  \/ \E t \in TaskIds : FetchFail(t)

Next ==
  \/ Tick
  \/ \E ctx \in Contexts : SelectForced(ctx)
  \/ \E ctx \in Contexts : SelectFresh(ctx)
  \/ \E t \in TaskIds, ctx \in Contexts : SelectStale(t, ctx)
  \/ \E t \in TaskIds, ctx \in Contexts : SelectDecide(t, ctx)
  \/ \E t \in RefreshSlots : RefreshHealth(t)
  \/ CheckHealthStep
  \/ \E t \in TaskIds, u \in UtilReadings, v \in VramReadings, e \in ProbeTimes :
       RefreshResume(t, u, v, e)

Spec == Init /\ [][Next]_vars

\* the same router with the 5 s interval only: the staleness window is one
\* time unit, so calls fall inside, on the edge of and beyond the window
InitShortInterval ==
  /\ Init
  /\ config.healthCheckIntervalSec = 5

SpecShortInterval == InitShortInterval /\ [][Next]_vars

(* ---------------------------------------------------------------------- *)
(* Specification of the routing decision: one selectModel call on every    *)
(* state a refreshHealth can leave behind                                  *)
(* ---------------------------------------------------------------------- *)
\* the snapshots checkHealth can install: a success with any catalogs, or a
\* failure that keeps the pulled catalog of an earlier success
HealthSnapshots ==
  {HealthOnSuccess(p, r) : p \in SUBSET Models, r \in SUBSET Models} \cup
  {HealthOnFailure(HealthOnSuccess(p, {})) : p \in SUBSET Models}

\* the router as constructed, or after a refreshHealth that resumed with the
\* flag `reachable` of its own checkHealth while the cache held `h` (its own
\* snapshot, or the one an overlapping checkHealth installed meanwhile)
InitRoute ==
  /\ config \in RouteConfigs
  /\ now = StartTime
  /\ health \in HealthSnapshots \cup {InitialHealth}
  /\ \/ state = InitialState /\ health = InitialHealth
     \/ \E reachable \in BOOLEAN, u \in RouteUtilReadings, v \in RouteVramReadings :
          state = refreshed(InitialState, health, reachable, now, u, v)
  /\ healthInterval = 0
  /\ timers = {}
  /\ timersMade = 0
  /\ warmCalls = 0
  /\ tasks = [t \in TaskIds |-> FreeTask]
  /\ returned = NoReturn
  /\ agentEnd = NoHook
  /\ keepAlive = <<>>
  /\ snapshot = NoSnapshot
  /\ lastCall = "none"

NextRoute ==
  /\ ~returned.done
  /\ \/ \E ctx \in RouteContexts : SelectForced(ctx)
     \/ \E ctx \in RouteContexts : SelectFresh(ctx)

SpecRoute == InitRoute /\ [][NextRoute]_vars

(* ---------------------------------------------------------------------- *)
(* Specification of the lifecycle: start, stop and the interval timer      *)
(* ---------------------------------------------------------------------- *)
\* preloadOnStart set (the default) and unset
LifecycleConfigs ==
  [healthCheckIntervalSec : {10}, gpuMemoryThreshold : {85},
   fallbackModel : {NoString}, preloadOnStart : BOOLEAN]

InitLifecycle ==
  /\ config \in LifecycleConfigs
  /\ now = StartTime
  /\ health = InitialHealth
  /\ state = InitialState
  /\ healthInterval = 0
  /\ timers = {}
  /\ timersMade = 0
  /\ warmCalls = 0
  /\ tasks = [t \in TaskIds |-> FreeTask]
  /\ returned = NoReturn
  /\ agentEnd = NoHook
  /\ keepAlive = <<>>
  /\ snapshot = NoSnapshot
  /\ lastCall = "none"

NextLifecycle ==
  \/ \E t \in TaskIds : Start(t)
  \/ \E t \in TaskIds : StartResume(t)
  \/ \E t \in TaskIds : WarmDone(t)
  \/ Stop
  \/ \E t \in TaskIds : TimerFire(t)
  \/ CheckHealthStep
  \/ \E t \in TaskIds, u \in UtilReadings, v \in VramReadings :
       RefreshResume(t, u, v, 0)

SpecLifecycle == InitLifecycle /\ [][NextLifecycle]_vars

(* ---------------------------------------------------------------------- *)
(* Specification of the health cache: overlapping refreshHealth calls      *)
(* against a backend that answers with any catalogs or fails               *)
(* ---------------------------------------------------------------------- *)
\* the model lists /api/tags and /api/ps can answer with
CatalogAnswers == SUBSET Models

NextHealth ==
  \/ \E t \in TaskIds : RefreshHealth(t)
  \/ \E t \in TaskIds : VersionOk(t)
  \/ \E t \in TaskIds, m \in CatalogAnswers : TagsOk(t, m)
  \/ \E t \in TaskIds, m \in CatalogAnswers : PsOk(t, m)
  \/ \E t \in TaskIds : FetchFail(t)
  \/ \E t \in TaskIds, u \in UtilReadings, v \in VramReadings :
       RefreshResume(t, u, v, 0)

SpecHealth == Init /\ [][NextHealth]_vars

(* ---------------------------------------------------------------------- *)
(* Specification of selectModel under fair scheduling: every fetch settles *)
(* (fetchJson aborts after 10 s) and every queued continuation runs        *)
(* ---------------------------------------------------------------------- *)
\* the fetch task t awaits settles: it answers, fails or is aborted
FetchSettles(t) ==
  \/ VersionOk(t)
  \/ \E m \in TagsAnswers : TagsOk(t, m)
  \/ \E m \in CatalogAnswers : PsOk(t, m)
  \/ FetchFail(t)

\* the two probes of task t's refreshHealth return a value or null
ProbesReturn(t) ==
  \E u \in RouteUtilReadings, v \in RouteVramReadings : RefreshResume(t, u, v, 0)

\* a new counted call is admitted only if the calls already in flight can
\* still be counted within MaxDecisions
DecisionsInFlight ==
  Cardinality({t \in TaskIds : tasks[t].kind = "select"})

NextLive ==
  \/ Tick
  \/ \E ctx \in Contexts : SelectForced(ctx)
  \/ \E ctx \in Contexts :
       /\ state.decisionsCount + DecisionsInFlight < MaxDecisions
       /\ SelectFresh(ctx)
  \/ \E t \in TaskIds, ctx \in Contexts :
       /\ state.decisionsCount + DecisionsInFlight < MaxDecisions
       /\ SelectStale(t, ctx)
  \/ \E t \in TaskIds, ctx \in Contexts : SelectDecide(t, ctx)
  \/ \E t \in TaskIds : FetchSettles(t)
  \/ \E t \in TaskIds : ProbesReturn(t)

Fairness ==
  \A t \in TaskIds :
    /\ WF_vars(FetchSettles(t))
    /\ WF_vars(ProbesReturn(t))
    /\ WF_vars(\E ctx \in Contexts : SelectDecide(t, ctx))

SpecLive == Init /\ [][NextLive]_vars /\ Fairness

(* ---------------------------------------------------------------------- *)
(* Specification of the agent_end hook and the warm calls it starts        *)
(* ---------------------------------------------------------------------- *)
NextAgentEnd ==
  \/ \E m \in EventModels : AgentEnd(m)
  \/ \E i \in 1..Len(keepAlive) : KeepAliveOk(i)
  \/ \E i \in 1..Len(keepAlive) : KeepAliveFail(i)

SpecAgentEnd == Init /\ [][NextAgentEnd]_vars

(* ---------------------------------------------------------------------- *)
(* Specification of getState: one snapshot taken at any moment among       *)
(* selectModel and refreshHealth calls                                     *)
(* ---------------------------------------------------------------------- *)
\* nvidia-smi absent, or a reading
SnapshotVramReadings == {NoVram, <<5, 10>>}

InitSnapshot ==
  /\ Init
  /\ config.healthCheckIntervalSec = 10

NextSnapshot ==
  \/ GetState
  \/ \E ctx \in Contexts : SelectForced(ctx)
  \/ \E ctx \in Contexts : SelectFresh(ctx)
  \/ \E t \in RefreshSlots : RefreshHealth(t)
  \/ CheckHealthStep
  \/ \E t \in TaskIds, u \in UtilReadings, v \in SnapshotVramReadings :
       RefreshResume(t, u, v, 0)

SpecSnapshot == InitSnapshot /\ [][NextSnapshot]_vars

TypeOK ==
  /\ config \in Configs \cup RouteConfigs
  /\ now \in StartTime..MaxTime
  /\ state.decisionsCount \in 0..MaxDecisions
  /\ healthInterval \in 0..MaxStarts

\* ---------------------------------------------------------------------------
\* Properties of selectModel.  `returned` describes the selectModel call that
\* returned in the last step: its argument, the state the decision was made
\* from (pre), the number of refreshHealth runs it awaited, the time of the
\* call and lastHealthCheck at the time of the call.
\* ---------------------------------------------------------------------------

Decision == state.lastDecision

NonForcedReturn == returned.done /\ ~IsForced(returned.ctx)

\* the health fields of the router state, which only refreshHealth writes
HealthFields(s) ==
  <<s.ollamaReachable, s.lastHealthCheck, s.primaryStatus, s.sidecarStatus,
    s.gpuUtilization, s.vramUsage>>

\* C1: in every reachable state decisionsCount equals
\* primarySelections + sidecarSelections + fallbackSelections.
C1_CountersAddUp ==
  state.decisionsCount =
    state.primarySelections + state.sidecarSelections + state.fallbackSelections

\* a refreshing call has just returned a fallback decision after an earlier
\* primary decision
C1_Witness ==
  /\ returned.done
  /\ returned.refreshes = 1
  /\ Decision.source = "fallback"
  /\ state.primarySelections = 1
  /\ state.fallbackSelections = 1
  /\ state.decisionsCount = 2

\* C2: every selectModel call, forced ones included, increments decisionsCount
\* by 1 and exactly the selection counter of the returned decision's source.
C2_EveryCallCounts ==
  returned.done =>
    LET pre == returned.pre
        inc(src) == IF Decision.source = src THEN 1 ELSE 0
    IN /\ state.decisionsCount = pre.decisionsCount + 1
       /\ state.primarySelections = pre.primarySelections + inc("primary")
       /\ state.sidecarSelections = pre.sidecarSelections + inc("sidecar")
       /\ state.fallbackSelections = pre.fallbackSelections + inc("fallback")

\* what C3 promises of a call that forces the model
ForcedOutcome ==
  /\ Decision.model = returned.ctx.forceModel
  /\ Decision.source = "primary"
  /\ HealthFields(state) = HealthFields(returned.pre)
  /\ returned.refreshes = 0
  /\ \A t \in TaskIds : IsFree(t)

\* C3 as stated: selectModel with any forceModel value x returns model = x,
\* source = primary, and runs no refreshHealth.
C3_AnyForceModel ==
  (returned.done /\ returned.ctx.given /\ returned.ctx.forceModel # NoString)
    => ForcedOutcome

\* C3: selectModel with a non-empty forceModel x returns model = x and
\* source = primary in every router state and runs no refreshHealth; the
\* health fields of the state are unchanged.
C3_ForcedOverride ==
  (returned.done /\ returned.ctx.given
     /\ returned.ctx.forceModel \notin {NoString, ""})
    => ForcedOutcome

\* a forced call returned on a router that never ran a health check
C3_Witness ==
  /\ returned.done
  /\ returned.ctx.forceModel = "x"
  /\ ~returned.pre.ollamaReachable
  /\ returned.pre.lastHealthCheck = 0
  /\ (now - returned.pre.lastHealthCheck) * UnitSec
       > 2 * config.healthCheckIntervalSec
  /\ Decision.model = "x"

\* the last check was older than two intervals when the call was made
StaleAtCall ==
  (returned.calledAt - returned.lastCheck) * UnitSec
    > 2 * config.healthCheckIntervalSec

\* C4: a non-forced call made when the last check is older than two intervals
\* awaits exactly one refreshHealth and decides from the state after it; a
\* non-forced call made when it is not older awaits none.
C4_StalenessRefresh ==
  NonForcedReturn =>
    /\ returned.refreshes = (IF StaleAtCall THEN 1 ELSE 0)
    /\ StaleAtCall => returned.pre.lastHealthCheck >= returned.calledAt
    /\ Decision = decide(returned.pre, config, returned.ctx).lastDecision

\* a call found the data of an earlier health check stale and refreshed
C4_Witness ==
  /\ NonForcedReturn
  /\ StaleAtCall
  /\ returned.lastCheck > 0
  /\ returned.refreshes = 1
  /\ returned.pre.lastHealthCheck >= returned.calledAt

\* age, in seconds, of the health data a returned decision was made from
DecisionAge == (now - returned.pre.lastHealthCheck) * UnitSec

\* C5 as stated: every non-forced decision is made from a state with
\* now - lastHealthCheck <= 2 x healthCheckIntervalSec.
C5_AlwaysWithinTwoIntervals ==
  NonForcedReturn => DecisionAge <= 2 * config.healthCheckIntervalSec

\* C5: every non-forced decision is made from a state whose health check is
\* at most two intervals old, or from the state left by the refresh the call
\* awaited, whose age is the time of that refresh's two GPU probes.
C5_FreshOrJustRefreshed ==
  NonForcedReturn =>
    \/ DecisionAge <= 2 * config.healthCheckIntervalSec
    \/ /\ returned.refreshes = 1
       /\ DecisionAge <= 2 * ProbeTimeout * UnitSec

\* the first call on a new router, whose refresh spent both probe timeouts
C5_Witness ==
  /\ NonForcedReturn
  /\ returned.lastCheck = 0
  /\ returned.refreshes = 1
  /\ DecisionAge = 2 * ProbeTimeout * UnitSec
  /\ DecisionAge > 2 * config.healthCheckIntervalSec

\* C6: when ollamaReachable is false at decision time, a non-forced call
\* returns source = fallback with the unreachability reason and increments
\* fallbackSelections by exactly 1, whatever the statuses, readings and hints.
C6_UnreachableFallsBack ==
  (NonForcedReturn /\ ~returned.pre.ollamaReachable) =>
    /\ Decision.source = "fallback"
    /\ Decision.reason = ReasonUnreachable
    /\ state.fallbackSelections = returned.pre.fallbackSelections + 1
    /\ state.primarySelections = returned.pre.primarySelections
    /\ state.sidecarSelections = returned.pre.sidecarSelections

\* both models are still known as pulled, the GPU is overloaded and the
\* request is simple, but the backend is unreachable
C6_Witness ==
  /\ NonForcedReturn
  /\ ~returned.pre.ollamaReachable
  /\ returned.pre.primaryStatus.pulled
  /\ returned.pre.sidecarStatus.pulled
  /\ returned.pre.vramUsage = <<9, 10>>
  /\ returned.ctx = NoHints
  /\ Decision.source = "fallback"

\* The inputs of rules 6a-6g, read from the state a decision was made from.
\* overloaded and simple are stated here from their definitions in the
\* specification, independently of isGpuOverloaded and isSimpleRequest.
PrimaryPulled == returned.pre.primaryStatus.pulled
PrimaryLoaded == returned.pre.primaryStatus.loaded
SidecarPulled == returned.pre.sidecarStatus.pulled
SidecarLoaded == returned.pre.sidecarStatus.loaded

Overloaded ==
  /\ returned.pre.vramUsage # NoVram
  /\ LET v == returned.pre.vramUsage
     IN IF v[2] = 0 THEN v[1] > 0
        ELSE v[1] * 100 >= config.gpuMemoryThreshold * v[2]

HintOrZero(x) == IF x = Undefined THEN 0 ELSE x

\* simple as the specification words it: absent hint fields count as 0
HintsSimple ==
  /\ HintOrZero(returned.ctx.messageLength) < 200
  /\ HintOrZero(returned.ctx.conversationDepth) < 3

\* simple as the code has it: a call without a hints argument is not simple
Simple == returned.ctx.given /\ HintsSimple

\* rule i of 6a-6g matches, given the overload and simple classifications
RuleMatches(i, overloaded, simple) ==
  CASE i = 1 -> PrimaryPulled /\ PrimaryLoaded /\ ~overloaded
    [] i = 2 -> PrimaryPulled /\ ~overloaded /\ ~simple
    [] i = 3 -> SidecarPulled /\ (overloaded \/ simple)
    [] i = 4 -> SidecarPulled /\ SidecarLoaded
    [] i = 5 -> PrimaryPulled
    [] i = 6 -> SidecarPulled
    [] i = 7 -> TRUE

FirstRule(overloaded, simple) ==
  CHOOSE i \in 1..7 :
    /\ RuleMatches(i, overloaded, simple)
    /\ \A j \in 1..(i - 1) : ~RuleMatches(j, overloaded, simple)

RuleSource(i) ==
  CASE i \in {1, 2, 5} -> "primary"
    [] i \in {3, 4, 6} -> "sidecar"
    [] i = 7 -> "fallback"

RuleReason(i, overloaded) ==
  CASE i = 1 -> ReasonPrimaryLoaded
    [] i = 2 -> ReasonPrimaryLoading
    [] i = 3 -> IF overloaded
                THEN ReasonOverloaded(config)
                ELSE ReasonSimple
    [] i = 4 -> ReasonSidecarWarm
    [] i = 5 -> ReasonPartialOffload
    [] i = 6 -> ReasonOnlySidecar
    [] i = 7 -> ReasonNoLocal

\* the decision is the one of the first matching rule
DecidedByFirstRule(overloaded, simple) ==
  LET i == FirstRule(overloaded, simple)
      inc(src) == IF RuleSource(i) = src THEN 1 ELSE 0
  IN /\ Decision.source = RuleSource(i)
     /\ Decision.reason = RuleReason(i, overloaded)
     /\ state.decisionsCount = returned.pre.decisionsCount + 1
     /\ state.primarySelections = returned.pre.primarySelections + inc("primary")
     /\ state.sidecarSelections = returned.pre.sidecarSelections + inc("sidecar")
     /\ state.fallbackSelections = returned.pre.fallbackSelections + inc("fallback")

C8_NoReadingNotOverloaded ==
  (NonForcedReturn /\ returned.pre.vramUsage = NoVram) =>
    /\ ~isGpuOverloaded(returned.pre, config)
    /\ Decision.reason # ReasonOverloaded(config)
    /\ returned.pre.ollamaReachable => DecidedByFirstRule(FALSE, Simple)

\* no VRAM reading, utilization 100, threshold 0: the loaded primary is used
C8_Witness ==
  /\ NonForcedReturn
  /\ returned.pre.ollamaReachable
  /\ returned.pre.vramUsage = NoVram
  /\ returned.pre.gpuUtilization = 100
  /\ config.gpuMemoryThreshold = 0
  /\ PrimaryPulled /\ PrimaryLoaded /\ SidecarPulled
  /\ Decision.source = "primary"
  /\ Decision.reason = ReasonPrimaryLoaded

\* C9 as stated: a request is simple exactly when messageLength < 200 and
\* conversationDepth < 3 with absent fields treated as 0, also when the call
\* has no hints argument at all.
C9_SimpleAlsoWithoutArgument ==
  (NonForcedReturn /\ returned.pre.ollamaReachable) =>
    /\ isSimpleRequest(returned.ctx) = HintsSimple
    /\ DecidedByFirstRule(Overloaded, HintsSimple)

\* C9: a call with a hints argument is simple exactly when messageLength < 200
\* and conversationDepth < 3, with absent fields treated as 0; a call with no
\* hints argument is not simple.
C9_SimpleWhenHintsGiven ==
  (NonForcedReturn /\ returned.pre.ollamaReachable) =>
    /\ isSimpleRequest(returned.ctx) = (returned.ctx.given /\ HintsSimple)
    /\ DecidedByFirstRule(Overloaded, returned.ctx.given /\ HintsSimple)

\* a hints argument without fields takes the simple-request rule where a
\* request that is not simple would load the primary
C9_Witness ==
  /\ NonForcedReturn
  /\ returned.ctx = NoHints
  /\ returned.pre.ollamaReachable
  /\ PrimaryPulled /\ ~PrimaryLoaded /\ SidecarPulled
  /\ ~Overloaded
  /\ Decision.source = "sidecar"
  /\ Decision.reason = ReasonSimple

\* scenario B: reachable, primary pulled and loaded, VRAM ratio 0.5 against a
\* threshold of 0.85, selectModel({})
ScenarioB ==
  /\ returned.done
  /\ returned.ctx = NoHints
  /\ returned.pre.ollamaReachable
  /\ PrimaryPulled /\ PrimaryLoaded
  /\ returned.pre.vramUsage = <<5, 10>>
  /\ config.gpuMemoryThreshold = 85

\* C10 as stated: in scenario B the sidecar is returned as already warm when
\* it is pulled and loaded, and the primary with the partial offload reason
\* when the sidecar is not pulled.
C10_SidecarOrPartialOffload ==
  ScenarioB =>
    /\ (SidecarPulled /\ SidecarLoaded) =>
         /\ Decision.source = "sidecar"
         /\ Decision.reason = ReasonSidecarWarm
    /\ ~SidecarPulled =>
         /\ Decision.source = "primary"
         /\ Decision.reason = ReasonPartialOffload

\* C10: in scenario B the loaded primary is returned with the reason
\* ReasonPrimaryLoaded, both when the sidecar is
\* pulled and loaded and when it is not pulled.
C10_LoadedPrimaryWins ==
  (ScenarioB /\ ((SidecarPulled /\ SidecarLoaded) \/ ~SidecarPulled)) =>
    /\ Decision.source = "primary"
    /\ Decision.model = "ollama/" \o PrimaryModel
    /\ Decision.reason = ReasonPrimaryLoaded

\* scenario B with a pulled and loaded sidecar
C10_Witness ==
  /\ ScenarioB
  /\ SidecarPulled /\ SidecarLoaded
  /\ Decision.source = "primary"

C12_NothingPulledFallsBack ==
  (NonForcedReturn /\ ~PrimaryPulled /\ ~SidecarPulled) =>
    /\ Decision.source = "fallback"
    /\ Decision.model = (IF config.fallbackModel = NoString
                         THEN "anthropic/claude-sonnet-4-5"
                         ELSE config.fallbackModel)
    /\ state.fallbackSelections = returned.pre.fallbackSelections + 1

\* reachable backend, both models running but not pulled, GPU overloaded, no
\* fallbackModel configured
C12_Witness ==
  /\ NonForcedReturn
  /\ returned.pre.ollamaReachable
  /\ ~PrimaryPulled /\ ~SidecarPulled /\ PrimaryLoaded /\ SidecarLoaded
  /\ returned.pre.vramUsage = <<9, 10>>
  /\ config.fallbackModel = NoString
  /\ Decision.model = "anthropic/claude-sonnet-4-5"
  /\ Decision.reason = ReasonNoLocal

\* task t's checkHealth attempt fails in this step
AttemptFails(t) ==
  /\ tasks[t].pc \in {"version", "tags", "ps"}
  /\ tasks'[t].pc = "health"
  /\ ~tasks'[t].reachable

\* task t's checkHealth attempt succeeds in this step
AttemptSucceeds(t) ==
  /\ tasks[t].pc = "ps"
  /\ tasks'[t].pc = "health"
  /\ tasks'[t].reachable

\* C13 as stated: a failed attempt leaves reachable = false, runningModels
\* empty and the pulledModels that were cached before the attempt began.
C13_CatalogOfAttemptStart ==
  [][\A t \in TaskIds :
       AttemptFails(t) =>
         health' = [reachable |-> FALSE, pulledModels |-> tasks[t].cached,
                    runningModels |-> {}]]_vars

\* C13: a failed attempt leaves reachable = false, runningModels empty and
\* the pulledModels the cache holds when the failure is handled, which is the
\* catalog of the last successful check; so the catalog survives any number
\* of consecutive failures.
C13_FailureKeepsCatalog ==
  [][\A t \in TaskIds :
       AttemptFails(t) =>
         health' = [reachable |-> FALSE, pulledModels |-> health.pulledModels,
                    runningModels |-> {}]]_vars

\* two attempts that both began after the last successful check have failed
\* and the cache still holds that check's catalog
C13_Witness ==
  /\ ~health.reachable
  /\ health.pulledModels = Models
  /\ health.runningModels = {}
  /\ \A t \in TaskIds :
       /\ tasks[t].pc = "health"
       /\ ~tasks[t].reachable
       /\ tasks[t].cached = Models

\* C14: the cache changes only in the step that ends an attempt; a reachable
\* snapshot is installed only by an attempt whose three calls succeeded and
\* holds that attempt's catalogs; an attempt in flight and a failing attempt
\* leave none of their results in the cache.
C14_SnapshotReplacedWhole ==
  [][/\ health' # health =>
          \E t \in TaskIds : AttemptFails(t) \/ AttemptSucceeds(t)
     /\ (health' # health /\ health'.reachable) =>
          \E t \in TaskIds, m \in CatalogAnswers :
            /\ AttemptSucceeds(t)
            /\ health' = [reachable |-> TRUE, pulledModels |-> tasks[t].tags,
                          runningModels |-> m]
     /\ \A t \in TaskIds :
          AttemptFails(t) =>
            /\ ~health'.reachable
            /\ health'.pulledModels = health.pulledModels]_vars

\* one attempt has installed its snapshot while another, which already
\* received a different catalog, is still waiting for /api/ps
C14_Witness ==
  \E t, u \in TaskIds :
    /\ tasks[t].pc = "ps"
    /\ tasks[t].tags = Models
    /\ tasks[u].pc = "health"
    /\ tasks[u].reachable
    /\ health = [reachable |-> TRUE, pulledModels |-> {PrimaryModel},
                 runningModels |-> {PrimaryModel}]

\* C15: every selectModel call returns a decision whose source is primary,
\* sidecar or fallback: a call that awaits its refresh is eventually resumed
\* and leaves only by returning such a decision, whatever the fetches and the
\* probes answer, provided every fetch settles.
C15_AlwaysDecides ==
  /\ [](returned.done => Decision.source \in {"primary", "sidecar", "fallback"})
  /\ [][\A t \in TaskIds :
          (tasks[t].kind = "select" /\ tasks'[t].kind # "select") =>
            /\ returned'.done
            /\ state'.lastDecision.source \in {"primary", "sidecar", "fallback"}]_vars
  /\ \A t \in SelectSlots :
       (tasks[t].kind = "select") ~> (returned.done /\ IsFree(t))

\* a call whose refresh failed to reach the backend has returned the fallback
C15_Witness ==
  /\ returned.done
  /\ returned.refreshes = 1
  /\ ~returned.pre.ollamaReachable
  /\ Decision.source = "fallback"

\* start() in task t resumes after its refreshHealth in this step
StartResumes(t) ==
  /\ tasks[t].kind = "start"
  /\ tasks[t].pc = "interval"
  /\ tasks'[t].pc # "interval"

\* C16: start() issues exactly one warmModel call when preloadOnStart is set
\* and the primary is pulled in the state left by the refreshHealth it
\* awaited, and none otherwise; no other step of the lifecycle issues one.
C16_PreloadOnce ==
  [][/\ \A t \in TaskIds :
          StartResumes(t) =>
            /\ tasks[t].refreshes = 1
            /\ warmCalls' = warmCalls +
                 (IF config.preloadOnStart /\ state.primaryStatus.pulled
                  THEN 1 ELSE 0)
     /\ (\A t \in TaskIds : ~StartResumes(t)) => warmCalls' = warmCalls]_vars

\* start() has issued its one warm call for the pulled primary
C16_Witness ==
  /\ config.preloadOnStart
  /\ state.ollamaReachable
  /\ state.primaryStatus.pulled
  /\ warmCalls = 1
  /\ timersMade = 1
  /\ \E t \in TaskIds : tasks[t].kind = "start" /\ tasks[t].pc = "warm"

\* C17: the preload is fire-and-forget: in the step in which start() resumes
\* after its refresh it sets the timer, issues the warm call if any and
\* completes, without waiting for the warm call to settle.
C17_FireAndForget ==
  [][\A t \in TaskIds :
       StartResumes(t) =>
         /\ healthInterval' \in timers'
         /\ tasks'[t].kind = "free"]_vars

\* the variables that hold the program's state; returned, snapshot and
\* lastCall record what callers did and saw
programVars ==
  <<config, now, health, state, healthInterval, timers, timersMade,
    warmCalls, tasks, agentEnd, keepAlive>>

\* C18: stop() on a router that holds no timer (never started, or already
\* stopped) changes nothing; stop() after start() cancels the timer start()
\* set and changes no RouterState field, and a timer-driven refreshHealth
\* begins only while a timer is scheduled.
C18_StopIdempotent ==
  /\ [](healthInterval = 0 => ~ENABLED <<Stop>>_programVars)
  /\ [][(healthInterval # 0 /\ healthInterval' = 0) =>
          /\ timers' = timers \ {healthInterval}
          /\ state' = state
          /\ tasks' = tasks]_vars
  /\ []((timersMade = 1 /\ healthInterval = 0) => timers = {})
  /\ [][(\E t \in TaskIds : tasks[t].kind = "free" /\ tasks'[t].kind = "refresh")
          => timers # {}]_vars

\* start() has completed and stop() has cancelled its timer
C18_Witness ==
  /\ timersMade = 1
  /\ healthInterval = 0
  /\ timers = {}
  /\ state.lastHealthCheck > 0
  /\ \A t \in TaskIds : IsFree(t)

\* the decision fields of the router state, which only selectModel writes
DecisionFields(s) ==
  <<s.lastDecision, s.decisionsCount, s.primarySelections, s.sidecarSelections,
    s.fallbackSelections>>

\* C19: a refreshHealth changes only the health/GPU fields and leaves
\* lastDecision and the four counters unchanged; a selectModel call that
\* awaited no refresh changes only lastDecision and the counters and leaves
\* the health/GPU fields unchanged.
C19_Frames ==
  [][/\ \A t \in TaskIds :
          (tasks[t].pc = "health" /\ tasks'[t].pc # "health") =>
            DecisionFields(state') = DecisionFields(state)
     /\ (returned'.done /\ returned'.refreshes = 0) =>
          HealthFields(state') = HealthFields(state)
     /\ (~returned'.done) => DecisionFields(state') = DecisionFields(state)
     /\ (\A t \in TaskIds : tasks[t].pc # "health") =>
          HealthFields(state') = HealthFields(state)]_vars

\* a refresh ran after a first decision, and the second call found that
\* decision and its count in place
C19_Witness ==
  /\ returned.done
  /\ returned.refreshes = 1
  /\ returned.pre.decisionsCount = 1
  /\ returned.pre.lastDecision.source = "sidecar"
  /\ returned.pre.lastHealthCheck > StartTime
  /\ state.decisionsCount = 2

\* C20: every returned decision, on the forced, fallback, primary and sidecar
\* paths alike, carries the GPU utilization and the VRAM used/total readings
\* the router state held at decision time, whenever they are not null.
C20_DecisionCarriesReadings ==
  returned.done =>
    /\ returned.pre.gpuUtilization # Undefined =>
         Decision.gpuUtilization = returned.pre.gpuUtilization
    /\ returned.pre.vramUsage # NoVram =>
         /\ Decision.vramUsedMB = returned.pre.vramUsage[1]
         /\ Decision.vramTotalMB = returned.pre.vramUsage[2]

\* ---------------------------------------------------------------------------
\* Overlapping refreshHealth invocations
\* ---------------------------------------------------------------------------
\* task t is inside checkHealth or waits to resume from it
InRefresh(t) == tasks[t].pc \in {"version", "tags", "ps", "health"}

\* the step in which refreshHealth of task t returns and no other
\* refreshHealth is left in flight
LastRefreshCompletes(t) ==
  /\ tasks[t].pc = "health"
  /\ tasks'[t].pc # "health"
  /\ \A u \in TaskIds \ {t} : ~InRefresh(u)

\* C21: when overlapping refreshHealth invocations have all completed, the
\* router state holds what the last one to complete wrote: ollamaReachable,
\* primaryStatus and sidecarStatus all come from the snapshot that
\* invocation's checkHealth returned
C21_LastWriterWins ==
  [][\A t \in TaskIds :
       LastRefreshCompletes(t) =>
         /\ state'.ollamaReachable = tasks[t].result.reachable
         /\ state'.primaryStatus = getModelStatus(tasks[t].result, PrimaryModel)
         /\ state'.sidecarStatus = getModelStatus(tasks[t].result, SidecarModel)]_vars

\* two invocations overlapped: the one whose checkHealth failed resumed
\* first and wrote its own flag next to statuses read from the snapshot of
\* the other, which is the last in flight and about to resume
C21_Witness ==
  \E t \in TaskIds :
    /\ tasks[t].pc = "health"
    /\ \A u \in TaskIds \ {t} : IsFree(u)
    /\ tasks[t].result.reachable
    /\ ~state.ollamaReachable
    /\ state.primaryStatus.loaded

\* ---------------------------------------------------------------------------
\* The agent_end hook
\* ---------------------------------------------------------------------------
\* the name with one leading "ollama/" removed
WithoutOllamaPrefix(m) == IF Len(m) > 1 /\ Head(m) = "ollama" THEN Tail(m) ELSE m

\* the name is one of the two configured local models
IsLocalModel(m) == m = <<PrimaryModel>> \/ m = <<SidecarModel>>

\* C22: the agent_end hook completes without waiting for the warm call it
\* starts and never fails, whatever the outcome of that call (pending, ok,
\* failed or aborted); the warm call is started exactly when the model
\* used, with one leading "ollama/" removed, is the configured primary or
\* sidecar model, and is made for that model
C22_HookFireAndForget ==
  /\ agentEnd.status \in {"none", "fulfilled"}
  /\ agentEnd.status = "fulfilled" =>
       (agentEnd.warmed <=>
          /\ agentEnd.model # NoModel
          /\ agentEnd.model # <<"">>
          /\ IsLocalModel(WithoutOllamaPrefix(agentEnd.model)))
  /\ \A i \in 1..Len(keepAlive) : IsLocalModel(keepAlive[i].model)
  /\ Len(keepAlive) = warmCalls

\* a hook invocation for "ollama/<primary>" has completed while its warm
\* call is pending, after an earlier warm call failed
C22_Witness ==
  /\ agentEnd.status = "fulfilled"
  /\ agentEnd.model = <<"ollama", PrimaryModel>>
  /\ agentEnd.warmed
  /\ Len(keepAlive) >= 2
  /\ keepAlive[1].outcome = "failed"
  /\ keepAlive[Len(keepAlive)].outcome = "pending"

\* ---------------------------------------------------------------------------
\* getState
\* ---------------------------------------------------------------------------
\* C23: the object getState returned reads as the router state did at the
\* call, in every top-level field and inside primaryStatus, sidecarStatus,
\* vramUsage and lastDecision, whatever refreshHealth and selectModel calls
\* have run since
C23_SnapshotIsStable ==
  snapshot.taken => snapshot.value = snapshot.orig

\* since the snapshot was taken a refreshHealth has replaced both statuses
\* and the VRAM reading and a selectModel has counted a new decision
C23_Witness ==
  /\ snapshot.taken
  /\ snapshot.orig.lastDecision # NoDecision
  /\ state.primaryStatus # snapshot.orig.primaryStatus
  /\ state.sidecarStatus # snapshot.orig.sidecarStatus
  /\ state.vramUsage # snapshot.orig.vramUsage
  /\ state.lastDecision # snapshot.orig.lastDecision
  /\ state.decisionsCount # snapshot.orig.decisionsCount
  /\ state.lastHealthCheck # snapshot.orig.lastHealthCheck

\* ---------------------------------------------------------------------------
\* Reachability flag and model statuses
\* ---------------------------------------------------------------------------
\* C24: in every reachable router state, under any interleaving of
\* overlapping refreshHealth invocations, an unreachable backend has no
\* loaded model: ollamaReachable = false implies that neither
\* primaryStatus.loaded nor sidecarStatus.loaded is set
C24_UnreachableNothingLoaded ==
  ~state.ollamaReachable =>
    /\ ~state.primaryStatus.loaded
    /\ ~state.sidecarStatus.loaded

\* ---------------------------------------------------------------------------
\* start, stop and the number of timers
\* ---------------------------------------------------------------------------
StartInFlight == \E t \in TaskIds : tasks[t].kind = "start"

\* C25: for any interleaving of start() and stop() calls at most one
\* periodic refresh timer is active at any time, and none is active once
\* the last call was a stop() that has returned and every start() has
\* completed
C25_AtMostOneTimer ==
  /\ Cardinality(timers) <= 1
  /\ (lastCall = "stop" /\ ~StartInFlight) => timers = {}

\* ---------------------------------------------------------------------------
\* Loaded but not pulled
\* ---------------------------------------------------------------------------
\* C26: a local model is selected only if it is pulled: a non-forced
\* decision with source primary was made with primaryStatus.pulled set, one
\* with source sidecar with sidecarStatus.pulled set; a model that is
\* loaded but not pulled is not chosen, and the decision is fallback when
\* no model is pulled
C26_SelectedOnlyIfPulled ==
  NonForcedReturn =>
    /\ Decision.source = "primary" => returned.pre.primaryStatus.pulled
    /\ Decision.source = "sidecar" => returned.pre.sidecarStatus.pulled
    /\ (~returned.pre.primaryStatus.pulled /\ ~returned.pre.sidecarStatus.pulled)
         => Decision.source = "fallback"

\* the backend is reachable and reports the primary model running although
\* the pulled catalog holds no model: the decision is fallback
C26_Witness ==
  /\ NonForcedReturn
  /\ returned.pre.ollamaReachable
  /\ returned.pre.primaryStatus.loaded
  /\ ~returned.pre.primaryStatus.pulled
  /\ ~returned.pre.sidecarStatus.pulled
  /\ ~isGpuOverloaded(returned.pre, config)
  /\ Decision.source = "fallback"
  /\ Decision.reason = ReasonNoLocal

\* ---------------------------------------------------------------------------
\* After a failed refresh
\* ---------------------------------------------------------------------------
\* refreshHealth of task t returns in this step
RefreshReturns(t) == tasks[t].pc = "health" /\ tasks'[t].pc # "health"

\* the last refreshHealth that wrote the state had a failed health check
AfterFailedRefresh(s) == ~s.ollamaReachable /\ s.lastHealthCheck > 0

\* C27: a refreshHealth whose health check failed sets lastHealthCheck to
\* the current time all the same; a non-forced selectModel called within
\* two intervals of it starts no health check and returns fallback; and the
\* state a failed refresh left changes only when a refreshHealth returns,
\* called by the timer, by an explicit refresh or by a selectModel that
\* found the data older than two intervals
C27_FailedRefreshHolds ==
  /\ [][\A t \in TaskIds :
          (RefreshReturns(t) /\ ~tasks[t].reachable) =>
            /\ ~state'.ollamaReachable
            /\ state'.lastHealthCheck = now]_vars
  /\ []((NonForcedReturn /\ ~StaleAtCall /\ AfterFailedRefresh(returned.pre)) =>
          /\ returned.refreshes = 0
          /\ Decision.source = "fallback"
          /\ Decision.reason = ReasonUnreachable
          /\ HealthFields(state) = HealthFields(returned.pre))
  /\ [][(AfterFailedRefresh(state) /\ HealthFields(state') # HealthFields(state)) =>
          \E t \in TaskIds :
            /\ RefreshReturns(t)
            /\ \/ tasks[t].kind = "refresh"
               \/ /\ tasks[t].kind = "select"
                  /\ (tasks[t].calledAt - tasks[t].lastCheck) * UnitSec
                       > 2 * config.healthCheckIntervalSec]_vars

\* a health check failed, time passed within the staleness window, the
\* backend answers again (another check has just succeeded in the client),
\* and a selectModel call made now returned fallback without a check
C27_Witness ==
  /\ NonForcedReturn
  /\ ~StaleAtCall
  /\ AfterFailedRefresh(returned.pre)
  /\ returned.calledAt > returned.lastCheck
  /\ returned.refreshes = 0
  /\ health.reachable
  /\ Decision.source = "fallback"
====
